---- MODULE Spec2Model ----
\* Contact store and identity store of the Rest_Api service: the repository
\* functions of src/Rest_Api/src/repository/contacts.py over a table of contact
\* rows and of src/Rest_Api/src/repository/users.py over a table of user rows.
EXTENDS Integers, Sequences, FiniteSets, TLC

VARIABLES
    store,       \* the contacts table, rows in table order
    nextId,      \* the next autoincrement id of contacts
    last,        \* the contact call being answered
    users,       \* the users table, rows in table order
    nextUserId,  \* the next autoincrement id of users
    auth,        \* the identity call being answered
    tasks,       \* the update_contact calls running in separate sessions
    commits      \* the tasks that committed, in commit order

vars == <<store, nextId, last, users, nextUserId, auth, tasks, commits>>

\* The state of the identity store and of the concurrent sessions.
identityVars == <<users, nextUserId, auth>>
taskVars == <<tasks, commits>>

\* ---------------------------------------------------------------- bounds

\* Number of contacts ever created in one behaviour (ids are 1..MaxCreated).
MaxCreated == 3
\* Largest offset passed as skip.
MaxSkip == 1
\* Largest small page size passed as limit (the default page size is also passed).
MaxLimit == 1
\* Number of users ever created in one behaviour (ids are 1..MaxUsers).
MaxUsers == 2

\* ---------------------------------------------------------------- constants

\* limit: int = Query(default=10)
DefaultLimit == 10
\* if 0 <= td.days <= 7
WindowDays == 7
\* status.HTTP_404_NOT_FOUND
HTTP_404_NOT_FOUND == 404
\* status.HTTP_201_CREATED
HTTP_201_CREATED == 201
\* status.HTTP_204_NO_CONTENT
HTTP_204_NO_CONTENT == 204
\* The status of a route that declares none.
HTTP_200_OK == 200
\* The status of a request whose handler raised.
HTTP_500_INTERNAL_SERVER_ERROR == 500
\* The status of a signup with a registered email.
HTTP_409_CONFLICT == 409
\* The status of a rejected login.
HTTP_401_UNAUTHORIZED == 401

\* ---------------------------------------------------------------- values

\* User.id of the authenticated callers.
Users == {1, 2}

\* Python's None, as returned by Query.first() when no row matches.
None == [none |-> TRUE]

\* Optional[str] query parameters: Absent is None, Some(s) is the string s.
Absent == <<>>
Some(s) == <<s>>

\* Variant of Truthy: only None is falsy.
IsNotNone(f) == f # Absent

\* Python truthiness of an Optional[str]: None and "" are falsy.
Truthy(f) == f # Absent /\ f # Some("")

Date(y, m, d) == [year |-> y, month |-> m, day |-> d]

ContactIds == 1..MaxCreated
Skips == 0..MaxSkip
Limits == (1..MaxLimit) \cup {DefaultLimit}

\* ---------------------------------------------------------------- datetime.date

IsLeap(y) == (y % 4 = 0) /\ ((y % 100 # 0) \/ (y % 400 = 0))

DaysInMonth(y, m) ==
    IF m = 2 THEN (IF IsLeap(y) THEN 29 ELSE 28)
    ELSE IF m \in {4, 6, 9, 11} THEN 30 ELSE 31

RECURSIVE DaysBeforeMonth(_, _)
DaysBeforeMonth(y, m) ==
    IF m = 1 THEN 0 ELSE DaysBeforeMonth(y, m - 1) + DaysInMonth(y, m - 1)

DaysBeforeYear(y) ==
    (y - 1) * 365 + ((y - 1) \div 4) - ((y - 1) \div 100) + ((y - 1) \div 400)

\* date.toordinal()
ToOrdinal(d) == DaysBeforeYear(d.year) + DaysBeforeMonth(d.year, d.month) + d.day

\* date.replace(year=y) raises ValueError when the day does not exist in year y.
CanReplaceYear(d, y) == d.day <= DaysInMonth(y, d.month)
ReplaceYear(d, y) == [d EXCEPT !.year = y]

\* Variant of DaysUntil: a birthday already past is counted from next year's date.
DaysUntilNext(date_of_birth, today) ==
    LET td == ToOrdinal(ReplaceYear(date_of_birth, today.year)) - ToOrdinal(today)
    IN  IF td < 0
            THEN ToOrdinal(ReplaceYear(date_of_birth, today.year + 1)) - ToOrdinal(today)
            ELSE td

\* (contact.date_of_birth.replace(year=current_year) - today).days
DaysUntil(date_of_birth, today) ==
    ToOrdinal(ReplaceYear(date_of_birth, today.year)) - ToOrdinal(today)

\* Variant of InWindow: birthdays up to 7 days before today are taken too.
InWindowEitherSide(date_of_birth, today) ==
    LET td == DaysUntil(date_of_birth, today) IN 0 - WindowDays <= td /\ td <= WindowDays

\* 0 <= td.days <= 7
InWindow(date_of_birth, today) ==
    LET td == DaysUntil(date_of_birth, today) IN 0 <= td /\ td <= WindowDays

\* ---------------------------------------------------------------- rows

\* Variant of Row: user_id is not set to the caller.
RowWithoutOwner(id, body, user) ==
    [id |-> id, user_id |-> 0,
     first_name |-> body.first_name, last_name |-> body.last_name,
     email |-> body.email, phone |-> body.phone,
     date_of_birth |-> body.date_of_birth]

\* Contact(**body.dict(), user_id=user.id), with the id the table generates.
Row(id, body, user) ==
    [id |-> id, user_id |-> user,
     first_name |-> body.first_name, last_name |-> body.last_name,
     email |-> body.email, phone |-> body.phone,
     date_of_birth |-> body.date_of_birth]

\* The five fields of the request body, read back from a row.
BodyOf(r) ==
    [first_name |-> r.first_name, last_name |-> r.last_name,
     email |-> r.email, phone |-> r.phone, date_of_birth |-> r.date_of_birth]

InSeq(x, s) == \E i \in 1..Len(s) : s[i] = x
RowsOf(s) == {s[i] : i \in 1..Len(s)}

\* Query.offset(skip) and Query.limit(limit) on rows in store order.
Offset(s, skip) == SubSeq(s, skip + 1, Len(s))
Limit(s, limit) == SubSeq(s, 1, IF Len(s) < limit THEN Len(s) ELSE limit)

\* Query.first(): the first row, or None.
First(s) == IF Len(s) = 0 THEN None ELSE s[1]

\* Variant of union: UNION ALL, duplicates kept.
union_all(a, b) == a \o b

\* Query.union(): SQL UNION, duplicate rows removed.
union(a, b) == a \o SelectSeq(b, LAMBDA r : ~InSeq(r, a))

\* The row orders a query without ORDER BY may come back in.
Orders(s) ==
    LET n == Len(s)
        P == {p \in [1..n -> 1..n] : \A i, j \in 1..n : p[i] = p[j] => i = j}
    IN  {[i \in 1..n |-> s[p[i]]] : p \in P}

\* ---------------------------------------------------------------- repository

\* db.query(Contact).filter(Contact.user_id == user.id)
user_query(db, user) == SelectSeq(db, LAMBDA r : r.user_id = user)

\* db.query(Contact).filter(and_(Contact.<field> == <value>, Contact.user_id == user.id))
first_name_query(db, first_name, user) ==
    SelectSeq(db, LAMBDA r : Some(r.first_name) = first_name /\ r.user_id = user)
last_name_query(db, last_name, user) ==
    SelectSeq(db, LAMBDA r : Some(r.last_name) = last_name /\ r.user_id = user)
\* Variant of email_query: no owner condition.
email_query_unscoped(db, email, user) ==
    SelectSeq(db, LAMBDA r : Some(r.email) = email)
email_query(db, email, user) ==
    SelectSeq(db, LAMBDA r : Some(r.email) = email /\ r.user_id = user)

\* db.query(Contact).filter(and_(Contact.id == contact_id, Contact.user_id == user.id))
\* Variant of id_query: no owner condition.
id_query_unscoped(db, contact_id, user) ==
    SelectSeq(db, LAMBDA r : r.id = contact_id)
id_query(db, contact_id, user) ==
    SelectSeq(db, LAMBDA r : r.id = contact_id /\ r.user_id = user)

\* Variant of get_contacts: offset and limit are applied to every branch.
get_contacts_paginated(skip, limit, first_name, last_name, email, user, db) ==
    LET fq == first_name_query(db, first_name, user)
        lq == last_name_query(db, last_name, user)
        eq == email_query(db, email, user)
        page(q) == Limit(Offset(q, skip), limit)
    IN  IF Truthy(first_name) /\ Truthy(last_name) /\ Truthy(email)
            THEN {page(o) : o \in Orders(union(union(fq, lq), eq))}
        ELSE IF Truthy(first_name) /\ Truthy(last_name)
            THEN {page(o) : o \in Orders(union(fq, lq))}
        ELSE IF Truthy(first_name) /\ Truthy(email)
            THEN {page(o) : o \in Orders(union(fq, eq))}
        ELSE IF Truthy(last_name) /\ Truthy(email)
            THEN {page(o) : o \in Orders(union(lq, eq))}
        ELSE IF Truthy(first_name) THEN {page(fq)}
        ELSE IF Truthy(last_name) THEN {page(lq)}
        ELSE IF Truthy(email) THEN {page(eq)}
        ELSE {page(user_query(db, user))}

\* get_contacts: the set of lists the call may return (a UNION has no row order).
get_contacts(skip, limit, first_name, last_name, email, user, db) ==
    LET fq == first_name_query(db, first_name, user)
        lq == last_name_query(db, last_name, user)
        eq == email_query(db, email, user)
    IN  IF Truthy(first_name) /\ Truthy(last_name) /\ Truthy(email)
            THEN Orders(union(union(fq, lq), eq))
        ELSE IF Truthy(first_name) /\ Truthy(last_name) THEN Orders(union(fq, lq))
        ELSE IF Truthy(first_name) /\ Truthy(email) THEN Orders(union(fq, eq))
        ELSE IF Truthy(last_name) /\ Truthy(email) THEN Orders(union(lq, eq))
        ELSE IF Truthy(first_name) THEN {fq}
        ELSE IF Truthy(last_name) THEN {lq}
        ELSE IF Truthy(email) THEN {eq}
        ELSE {Limit(Offset(user_query(db, user), skip), limit)}

\* get_contacts_birthdays: the returned list, or the exception date.replace raises.
get_contacts_birthdays(skip, limit, user, db, today) ==
    LET contacts == Limit(Offset(user_query(db, user), skip), limit)
    IN  IF \E i \in 1..Len(contacts) :
               ~CanReplaceYear(contacts[i].date_of_birth, today.year)
            THEN [result |-> None, error |-> "ValueError"]
            ELSE [result |-> SelectSeq(contacts,
                                 LAMBDA c : InWindow(c.date_of_birth, today)),
                  error |-> ""]

\* get_contact_by_id: the row, or None.
get_contact_by_id(contact_id, user, db) == First(id_query(db, contact_id, user))

\* Variant of create_contact: the row is owned by the first user of the table,
\* the caller when there is none.
create_contact_for_first_owner(body, user, db, id) ==
    LET owner == IF Len(db) = 0 THEN user ELSE db[1].user_id
        contact == Row(id, body, owner)
    IN  [db |-> Append(db, contact), result |-> contact]

\* create_contact: the table after the commit and the refreshed row.
create_contact(body, user, db, id) ==
    LET contact == Row(id, body, user)
    IN  [db |-> Append(db, contact), result |-> contact]

\* Variant of Assign: the phone assignment is missing.
AssignWithoutPhone(contact, body) ==
    [contact EXCEPT !.first_name = body.first_name,
                    !.last_name = body.last_name,
                    !.email = body.email,
                    !.date_of_birth = body.date_of_birth]

\* The five assignments of update_contact on the fetched row.
Assign(contact, body) ==
    [contact EXCEPT !.first_name = body.first_name,
                    !.last_name = body.last_name,
                    !.email = body.email,
                    !.phone = body.phone,
                    !.date_of_birth = body.date_of_birth]

\* Variant of update_contact: the row is fetched by id alone.
update_contact_by_id_only(contact_id, body, user, db) ==
    LET contact == First(SelectSeq(db, LAMBDA r : r.id = contact_id))
    IN  IF contact # None
            THEN [db |-> [i \in 1..Len(db) |->
                            IF db[i] = contact THEN Assign(contact, body) ELSE db[i]],
                  result |-> Assign(contact, body)]
            ELSE [db |-> db, result |-> None]

\* Variant of update_contact: the assignments reach every row of the caller.
update_contact_every_row_of_user(contact_id, body, user, db) ==
    LET contact == First(id_query(db, contact_id, user))
    IN  IF contact # None
            THEN [db |-> [i \in 1..Len(db) |->
                            IF db[i].user_id = user THEN Assign(db[i], body) ELSE db[i]],
                  result |-> Assign(contact, body)]
            ELSE [db |-> db, result |-> None]

\* update_contact: the table after the commit and the returned row or None.
update_contact(contact_id, body, user, db) ==
    LET contact == First(id_query(db, contact_id, user))
    IN  IF contact # None
            THEN [db |-> [i \in 1..Len(db) |->
                            IF db[i] = contact THEN Assign(contact, body) ELSE db[i]],
                  result |-> Assign(contact, body)]
            ELSE [db |-> db, result |-> None]

\* Variant of remove_contact: the row is fetched by id alone.
remove_contact_by_id_only(contact_id, user, db) ==
    LET contact == First(SelectSeq(db, LAMBDA r : r.id = contact_id))
    IN  IF contact # None
            THEN [db |-> SelectSeq(db, LAMBDA r : r # contact), result |-> contact]
            ELSE [db |-> db, result |-> None]

\* Variant of remove_contact: the row is returned but not deleted.
remove_contact_without_delete(contact_id, user, db) ==
    LET contact == First(id_query(db, contact_id, user))
    IN  [db |-> db, result |-> contact]

\* remove_contact: the table after the commit and the returned row or None.
remove_contact(contact_id, user, db) ==
    LET contact == First(id_query(db, contact_id, user))
    IN  IF contact # None
            THEN [db |-> SelectSeq(db, LAMBDA r : r # contact), result |-> contact]
            ELSE [db |-> db, result |-> None]

\* ---------------------------------------------------------------- routes

\* What a route hands to the client: raise HTTPException(status_code, detail),
\* or the returned value under the status code of the route.
HTTPException(status_code, detail) ==
    [status |-> status_code, detail |-> detail, body |-> None]
Returns(status_code, value) ==
    [status |-> status_code, detail |-> "", body |-> value]
NoResponse == [status |-> 0, detail |-> "", body |-> None]

\* get_contact_by_params: if not contact: raise 404
get_contact_by_params(contact) ==
    IF contact = <<>>
        THEN HTTPException(HTTP_404_NOT_FOUND,
                           "Contacts with requested parameters not found")
        ELSE Returns(HTTP_200_OK, contact)

\* Variant of get_birthdays: the check is `contacts is None`.
get_birthdays_is_none(r) ==
    IF r.error # ""
        THEN HTTPException(HTTP_500_INTERNAL_SERVER_ERROR, r.error)
        ELSE Returns(HTTP_200_OK, r.result)

\* get_birthdays: if not contacts: raise 404; an exception of the repository
\* call is not caught.
get_birthdays(r) ==
    IF r.error # ""
        THEN HTTPException(HTTP_500_INTERNAL_SERVER_ERROR, r.error)
    ELSE IF r.result = <<>>
        THEN HTTPException(HTTP_404_NOT_FOUND,
                           "Contacts with birthdays for the next 7 days not found")
        ELSE Returns(HTTP_200_OK, r.result)

\* get_contact: if contact is None: raise 404
get_contact(contact) ==
    IF contact = None
        THEN HTTPException(HTTP_404_NOT_FOUND, "Contact with requested id not found")
        ELSE Returns(HTTP_200_OK, contact)

\* The create_contact route: returns new_contact with status 201.
route_create_contact(new_contact) == Returns(HTTP_201_CREATED, new_contact)

\* The update_contact route: if contact is None: raise 404
route_update_contact(contact) ==
    IF contact = None
        THEN HTTPException(HTTP_404_NOT_FOUND, "Contact with requested id not found")
        ELSE Returns(HTTP_200_OK, contact)

\* remove_tag: if contact is None: raise 404; else the contact, status 204.
remove_tag(contact) ==
    IF contact = None
        THEN HTTPException(HTTP_404_NOT_FOUND, "Contact with requested id not found")
        ELSE Returns(HTTP_204_NO_CONTENT, contact)

\* ---------------------------------------------------------------- users

\* The password hash kept in the table, and its verification against a plain
\* password.
get_password_hash(password) == <<"hash", password>>
verify_password(plain_password, hashed_password) ==
    get_password_hash(plain_password) = hashed_password

\* Gravatar(body.email).get_image(): a URL derived from the email.
Gravatar(email) == [gravatar |-> email]

\* User(**body.dict(), avatar=avatar) after add, commit and refresh: not
\* confirmed, no refresh token.
User(id, body, avatar) ==
    [id |-> id, username |-> body.username, email |-> body.email,
     password |-> body.password, avatar |-> avatar, confirmed |-> FALSE,
     refresh_token |-> None]

\* Variant of get_user_by_email: no filter, the first row of the table.
get_first_user(email, db) == First(db)

\* Variant of get_user_by_email: no row is ever found.
get_no_user(email, db) == None

\* get_user_by_email: db.query(User).filter(User.email == email).first()
get_user_by_email(email, db) == First(SelectSeq(db, LAMBDA u : u.email = email))

\* create_user: the table after the commit and the refreshed row.
create_user(body, db, id) ==
    LET new_user == User(id, body, Gravatar(body.email))
    IN  [db |-> Append(db, new_user), result |-> new_user]

\* update_token: user.refresh_token = token; db.commit()
update_token(user, token, db) ==
    [i \in 1..Len(db) |->
        IF db[i].id = user.id THEN [db[i] EXCEPT !.refresh_token = token] ELSE db[i]]

\* Variant of confirmed_email: the refresh token is cleared as well.
confirmed_email_clears_token(email, db) ==
    LET user == get_user_by_email(email, db)
    IN  IF user = None
            THEN [db |-> db, error |-> "AttributeError"]
            ELSE [db |-> [i \in 1..Len(db) |->
                            IF db[i].id = user.id
                                THEN [db[i] EXCEPT !.confirmed = TRUE,
                                                   !.refresh_token = None]
                                ELSE db[i]],
                  error |-> ""]

\* confirmed_email: user.confirmed = True; db.commit(). The assignment on the
\* None of an unknown email raises AttributeError before the commit.
confirmed_email(email, db) ==
    LET user == get_user_by_email(email, db)
    IN  IF user = None
            THEN [db |-> db, error |-> "AttributeError"]
            ELSE [db |-> [i \in 1..Len(db) |->
                            IF db[i].id = user.id
                                THEN [db[i] EXCEPT !.confirmed = TRUE]
                                ELSE db[i]],
                  error |-> ""]

\* update_avatar: user.avatar = url; db.commit(); return user. The assignment
\* on the None of an unknown email raises AttributeError before the commit.
update_avatar(email, url, db) ==
    LET user == get_user_by_email(email, db)
    IN  IF user = None
            THEN [db |-> db, result |-> None, error |-> "AttributeError"]
            ELSE [db |-> [i \in 1..Len(db) |->
                            IF db[i].id = user.id
                                THEN [db[i] EXCEPT !.avatar = url]
                                ELSE db[i]],
                  result |-> [user EXCEPT !.avatar = url],
                  error |-> ""]

\* POST /api/auth/signup: 409 when the email is registered, else the user is
\* created with the hashed password and returned with 201.
signup(body, db, id) ==
    LET exist_user == get_user_by_email(body.email, db)
    IN  IF exist_user # None
            THEN [db |-> db, created |-> FALSE,
                  response |-> HTTPException(HTTP_409_CONFLICT, "Account already exists")]
            ELSE LET r == create_user(
                              [body EXCEPT !.password = get_password_hash(body.password)],
                              db, id)
                 IN  [db |-> r.db, created |-> TRUE,
                      response |-> Returns(HTTP_201_CREATED, r.result)]

\* The rejections of a login whose user exists: the tests fix each detail for a
\* single failing check, not the order of the two checks.
LoginRejections(user, password) ==
    {HTTPException(HTTP_401_UNAUTHORIZED, "Email not confirmed") :
        x \in IF user.confirmed THEN {} ELSE {1}}
    \cup
    {HTTPException(HTTP_401_UNAUTHORIZED, "Invalid password") :
        x \in IF verify_password(password, user.password) THEN {} ELSE {1}}

\* POST /api/auth/login: the possible outcomes. 401 for an unknown email, an
\* unconfirmed user or a wrong password; else the refresh token is stored and
\* the bearer tokens are returned.
login(username, password, refresh_token, db) ==
    LET user == get_user_by_email(username, db)
    IN  IF user = None
            THEN {[db |-> db,
                   response |-> HTTPException(HTTP_401_UNAUTHORIZED, "Invalid email")]}
        ELSE IF LoginRejections(user, password) # {}
            THEN {[db |-> db, response |-> x] : x \in LoginRejections(user, password)}
        ELSE {[db |-> update_token(user, refresh_token, db),
               response |-> Returns(HTTP_200_OK,
                                    [refresh_token |-> refresh_token,
                                     token_type |-> "bearer"])]}

\* ---------------------------------------------------------------- requests

Body(f, l, e, p, d) ==
    [first_name |-> f, last_name |-> l, email |-> e, phone |-> p, date_of_birth |-> d]

\* Request bodies of the CRUD specification: every field takes two values, and
\* the third body shares fields with each of the other two.
CrudBodies ==
    { Body("Luffy", "MonkeyD", "strawhatcaptain@meta.ua", "+3057218410", Date(1994, 5, 5)),
      Body("Zoro", "Roronoa", "strawhatswordsman@meta.ua", "+3057218411", Date(2000, 2, 29)),
      Body("Luffy", "Roronoa", "strawhatcaptain@meta.ua", "+3057218411", Date(1990, 5, 12)) }

\* Values of date.today().
Todays == {Date(2024, 5, 5), Date(2023, 5, 5), Date(2024, 12, 29)}

\* Request bodies and filters of the listing specification: the first body
\* matches all three filters, the second the first-name and the email filter,
\* the third the last-name filter alone, the fourth no filter.
QueryBodies ==
    { Body("Luffy", "Roronoa", "strawhatcaptain@meta.ua", "+3057218410", Date(1994, 5, 5)),
      Body("Luffy", "MonkeyD", "strawhatcaptain@meta.ua", "+3057218410", Date(1994, 5, 5)),
      Body("Zoro", "Roronoa", "strawhatswordsman@meta.ua", "+3057218410", Date(1994, 5, 5)),
      Body("Zoro", "MonkeyD", "strawhatswordsman@meta.ua", "+3057218410", Date(1994, 5, 5)) }
QueryFirstNames == {Absent, Some(""), Some("Luffy")}
QueryLastNames == {Absent, Some(""), Some("Roronoa")}
QueryEmails == {Absent, Some(""), Some("strawhatcaptain@meta.ua")}

\* Filters of the CRUD specification: absent, or the value of one body.
CrudFirstNames == {Absent, Some("Luffy")}
CrudLastNames == {Absent, Some("MonkeyD")}
CrudEmails == {Absent, Some("strawhatcaptain@meta.ua")}

\* Request bodies of the birthday specification: birthdays 0, 7 and 8 days
\* after 5 May and 5 days before it, 29 February, and 2 January.
BirthdayBodies ==
    { Body("Luffy", "MonkeyD", "strawhatcaptain@meta.ua", "+3057218410", d) :
        d \in { Date(1994, 5, 5), Date(2000, 5, 12), Date(1990, 5, 13),
                Date(1994, 4, 30), Date(2000, 2, 29), Date(1999, 1, 2) } }

\* The call being answered: its arguments and what it returns. NoCall when
\* no request is being handled. A repository function runs its queries and its
\* commit without awaiting, so calls are taken one at a time.
NoCall ==
    [op |-> "none", user |-> 0, contact_id |-> 0, body |-> None,
     skip |-> 0, limit |-> 0, first_name |-> Absent, last_name |-> Absent,
     email |-> Absent, today |-> None, result |-> None, error |-> "",
     response |-> NoResponse]

\* The users that sign up, the emails and passwords that are tried, the refresh
\* tokens that are issued and the avatar URLs that are uploaded.
Emails == {"newuser@gmail.com", "other@gmail.com"}
LoginEmails == Emails \cup {"email"}
Passwords == {"1597536482", "password"}
UserBodies ==
    {[username |-> "NewUser", email |-> e, password |-> p] :
        e \in Emails, p \in Passwords}
Tokens == {[jwt |-> "token1"], [jwt |-> "token2"]}
AvatarUrls == {[url |-> "https://res.cloudinary.com/RestApi/NewUser"]}

\* The identity call being answered; NoAuth when none is.
NoAuth ==
    [op |-> "none", email |-> "", password |-> "", token |-> None, url |-> None,
     user_id |-> 0, response |-> NoResponse, error |-> ""]

\* The update_contact calls in separate sessions; none runs outside the
\* concurrent specification.
Tasks == {1, 2}
NoTask ==
    [pc |-> "none", contact_id |-> 0, body |-> None, user |-> 0,
     contact |-> None, result |-> None, expire_on_commit |-> TRUE]

Init ==
    /\ store = <<>>
    /\ nextId = 1
    /\ last = NoCall
    /\ users = <<>>
    /\ nextUserId = 1
    /\ auth = NoAuth
    /\ tasks = [t \in Tasks |-> NoTask]
    /\ commits = <<>>

\* POST /contacts: create_contact(body, current_user, db)
CreateContact(Bodies) ==
    /\ last = NoCall
    /\ nextId <= MaxCreated
    /\ \E body \in Bodies, user \in Users :
        LET r == create_contact(body, user, store, nextId)
        IN  /\ store' = r.db
            /\ nextId' = nextId + 1
            /\ last' = [NoCall EXCEPT !.op = "create_contact", !.user = user,
                                      !.body = body, !.result = r.result,
                                      !.response = route_create_contact(r.result)]
            /\ UNCHANGED <<identityVars, taskVars>>

\* PUT /contacts/{contact_id}: update_contact(contact_id, body, current_user, db)
UpdateContact(Bodies) ==
    /\ last = NoCall
    /\ \E contact_id \in ContactIds, body \in Bodies, user \in Users :
        LET r == update_contact(contact_id, body, user, store)
        IN  /\ store' = r.db
            /\ last' = [NoCall EXCEPT !.op = "update_contact", !.user = user,
                                      !.contact_id = contact_id, !.body = body,
                                      !.result = r.result,
                                      !.response = route_update_contact(r.result)]
            /\ UNCHANGED <<nextId, identityVars, taskVars>>

\* DELETE /contacts/{contact_id}: remove_contact(contact_id, current_user, db)
RemoveContact ==
    /\ last = NoCall
    /\ \E contact_id \in ContactIds, user \in Users :
        LET r == remove_contact(contact_id, user, store)
        IN  /\ store' = r.db
            /\ last' = [NoCall EXCEPT !.op = "remove_contact", !.user = user,
                                      !.contact_id = contact_id, !.result = r.result,
                                      !.response = remove_tag(r.result)]
            /\ UNCHANGED <<nextId, identityVars, taskVars>>

\* GET /contacts/{contact_id}: get_contact_by_id(contact_id, current_user, db)
GetContactById ==
    /\ last = NoCall
    /\ \E contact_id \in ContactIds, user \in Users :
        LET contact == get_contact_by_id(contact_id, user, store)
        IN  /\ last' = [NoCall EXCEPT !.op = "get_contact_by_id", !.user = user,
                                      !.contact_id = contact_id, !.result = contact,
                                      !.response = get_contact(contact)]
            /\ UNCHANGED <<store, nextId, identityVars, taskVars>>

\* GET /contacts: get_contacts(skip, limit, first_name, last_name, email, current_user, db)
GetContacts(FirstNameFilters, LastNameFilters, EmailFilters) ==
    /\ last = NoCall
    /\ \E skip \in Skips, limit \in Limits, first_name \in FirstNameFilters,
          last_name \in LastNameFilters, email \in EmailFilters, user \in Users :
        \E result \in get_contacts(skip, limit, first_name, last_name, email, user, store) :
            /\ last' = [NoCall EXCEPT !.op = "get_contacts", !.user = user,
                                      !.skip = skip, !.limit = limit,
                                      !.first_name = first_name,
                                      !.last_name = last_name, !.email = email,
                                      !.result = result,
                                      !.response = get_contact_by_params(result)]
            /\ UNCHANGED <<store, nextId, identityVars, taskVars>>

\* GET /contacts/birthdays: get_contacts_birthdays(skip, limit, current_user, db)
GetContactsBirthdays ==
    /\ last = NoCall
    /\ \E skip \in Skips, limit \in Limits, user \in Users, today \in Todays :
        LET r == get_contacts_birthdays(skip, limit, user, store, today)
        IN  /\ last' = [NoCall EXCEPT !.op = "get_contacts_birthdays", !.user = user,
                                      !.skip = skip, !.limit = limit, !.today = today,
                                      !.result = r.result, !.error = r.error,
                                      !.response = get_birthdays(r)]
            /\ UNCHANGED <<store, nextId, identityVars, taskVars>>

\* The route returns the result to the client; the next request is then handled.
Return ==
    /\ last # NoCall
    /\ last' = NoCall
    /\ UNCHANGED <<store, nextId, identityVars, taskVars>>

\* All six operations, on the CRUD bodies.
Next ==
    \/ CreateContact(CrudBodies)
    \/ UpdateContact(CrudBodies)
    \/ RemoveContact
    \/ GetContactById
    \/ GetContacts(CrudFirstNames, CrudLastNames, CrudEmails)
    \/ GetContactsBirthdays
    \/ Return

Spec == Init /\ [][Next]_vars

\* The listing over tables built by create and remove.
NextQuery ==
    \/ CreateContact(QueryBodies)
    \/ RemoveContact
    \/ GetContacts(QueryFirstNames, QueryLastNames, QueryEmails)
    \/ Return

SpecQuery == Init /\ [][NextQuery]_vars

\* The birthday listing over tables built by create and remove.
NextBirthday ==
    \/ CreateContact(BirthdayBodies)
    \/ RemoveContact
    \/ GetContactsBirthdays
    \/ Return

SpecBirthday == Init /\ [][NextBirthday]_vars

\* ---------------------------------------------------------------- identity requests

contactVars == <<store, nextId, last>>

\* POST /api/auth/signup
Signup ==
    /\ auth = NoAuth
    /\ \E body \in UserBodies :
        LET r == signup(body, users, nextUserId)
        IN  /\ r.created => nextUserId <= MaxUsers
            /\ users' = r.db
            /\ nextUserId' = IF r.created THEN nextUserId + 1 ELSE nextUserId
            /\ auth' = [NoAuth EXCEPT !.op = "signup", !.email = body.email,
                                      !.password = body.password,
                                      !.response = r.response]
    /\ UNCHANGED <<contactVars, taskVars>>

\* The email-confirmation flow: confirmed_email(email, db)
ConfirmedEmail ==
    /\ auth = NoAuth
    /\ \E email \in LoginEmails :
        LET r == confirmed_email(email, users)
        IN  /\ users' = r.db
            /\ auth' = [NoAuth EXCEPT !.op = "confirmed_email", !.email = email,
                                      !.error = r.error]
    /\ UNCHANGED <<nextUserId, contactVars, taskVars>>

\* POST /api/auth/login
Login ==
    /\ auth = NoAuth
    /\ \E email \in LoginEmails, password \in Passwords, token \in Tokens :
        \E r \in login(email, password, token, users) :
            /\ users' = r.db
            /\ auth' = [NoAuth EXCEPT !.op = "login", !.email = email,
                                      !.password = password, !.token = token,
                                      !.response = r.response]
    /\ UNCHANGED <<nextUserId, contactVars, taskVars>>

\* update_token(user, token, db) on a user of the table, with a token or None.
UpdateToken ==
    /\ auth = NoAuth
    /\ \E i \in 1..Len(users), token \in Tokens \cup {None} :
        /\ users' = update_token(users[i], token, users)
        /\ auth' = [NoAuth EXCEPT !.op = "update_token", !.user_id = users[i].id,
                                  !.email = users[i].email, !.token = token]
    /\ UNCHANGED <<nextUserId, contactVars, taskVars>>

\* update_avatar(email, url, db)
UpdateAvatar ==
    /\ auth = NoAuth
    /\ \E email \in LoginEmails, url \in AvatarUrls :
        LET r == update_avatar(email, url, users)
        IN  /\ users' = r.db
            /\ auth' = [NoAuth EXCEPT !.op = "update_avatar", !.email = email,
                                      !.url = url, !.error = r.error]
    /\ UNCHANGED <<nextUserId, contactVars, taskVars>>

\* The response is sent; the next identity request is then handled.
ReturnAuth ==
    /\ auth # NoAuth
    /\ auth' = NoAuth
    /\ UNCHANGED <<users, nextUserId, contactVars, taskVars>>

NextUsers ==
    \/ Signup
    \/ ConfirmedEmail
    \/ Login
    \/ UpdateToken
    \/ UpdateAvatar
    \/ ReturnAuth

SpecUsers == Init /\ [][NextUsers]_vars

\* ---------------------------------------------------------------- concurrent updates

\* The columns that update_contact assigns.
Columns == {"first_name", "last_name", "email", "phone", "date_of_birth"}

\* The flush of db.commit(): the UPDATE of the row sets the columns whose
\* assigned value differs from the value the session loaded, and no others;
\* the row is addressed by its primary key.
commit(db, loaded, contact) ==
    [i \in 1..Len(db) |->
        IF db[i].id = loaded.id
            THEN [c \in DOMAIN db[i] |->
                    IF c \in Columns /\ contact[c] # loaded[c]
                        THEN contact[c]
                        ELSE db[i][c]]
            ELSE db[i]]

\* The calls update_contact(contact_id, body, user, db) that are about to run,
\* each in the session of its own request.
TaskCalls(expire_on_commit) ==
    {[pc |-> "query", contact_id |-> 1, body |-> body, user |-> user,
      contact |-> None, result |-> None, expire_on_commit |-> expire_on_commit] :
        body \in CrudBodies, user \in Users}

\* The sessions come from get_db of src.database.db: they expire the loaded
\* objects on commit, the default of a Session, or are made not to; one choice
\* holds for every session of the service.
ExpireOnCommit == BOOLEAN

\* One contact of user 1 is stored and two update_contact calls on it start.
InitConcurrent ==
    /\ store \in {<<Row(1, body, 1)>> : body \in CrudBodies}
    /\ nextId = 2
    /\ last = NoCall
    /\ users = <<>>
    /\ nextUserId = 1
    /\ auth = NoAuth
    /\ \E expire_on_commit \in ExpireOnCommit :
           tasks \in [Tasks -> TaskCalls(expire_on_commit)]
    /\ commits = <<>>

\* contact = db.query(Contact).filter(...).first(): the session loads the row;
\* without a row the call returns None.
TaskQuery(t) ==
    /\ tasks[t].pc = "query"
    /\ LET contact == First(id_query(store, tasks[t].contact_id, tasks[t].user))
       IN  tasks' = [tasks EXCEPT ![t].contact = contact,
                                  ![t].pc = IF contact = None THEN "done" ELSE "commit"]
    /\ UNCHANGED <<commits, contactVars, identityVars>>

\* The five assignments and db.commit(): the object of the session holds the
\* assigned values and nothing is read back.
TaskCommit(t) ==
    /\ tasks[t].pc = "commit"
    /\ LET loaded == tasks[t].contact
           contact == Assign(loaded, tasks[t].body)
       IN  /\ store' = commit(store, loaded, contact)
           /\ tasks' = [tasks EXCEPT ![t].pc = "return", ![t].contact = contact]
    /\ commits' = Append(commits, t)
    /\ UNCHANGED <<nextId, last, identityVars>>

\* What the fields of a returned contact read as: an object expired by the
\* commit loads the row of the table as it is at the read, another keeps the
\* values assigned to it.
read_contact(contact, expire_on_commit, db) ==
    IF expire_on_commit
        THEN First(SelectSeq(db, LAMBDA r : r.id = contact.id))
        ELSE contact

\* return contact: the fields are read when the response is built, after the
\* commit, and a commit of the other call can fall in between.
TaskReturn(t) ==
    /\ tasks[t].pc = "return"
    /\ tasks' = [tasks EXCEPT ![t].pc = "done",
                              ![t].result = read_contact(tasks[t].contact,
                                                         tasks[t].expire_on_commit,
                                                         store)]
    /\ UNCHANGED <<commits, contactVars, identityVars>>

NextConcurrent ==
    \/ \E t \in Tasks : TaskQuery(t)
    \/ \E t \in Tasks : TaskCommit(t)
    \/ \E t \in Tasks : TaskReturn(t)

SpecConcurrent == InitConcurrent /\ [][NextConcurrent]_vars

\* ---------------------------------------------------------------- properties

\* The table holds a row with this id owned by this user.
Owns(db, contact_id, user) ==
    \E i \in 1..Len(db) : db[i].id = contact_id /\ db[i].user_id = user

\* The rows a listing call handed back (none when it raised).
Returned(call) == IF call.error = "" THEN RowsOf(call.result) ELSE {}

ListingOps == {"get_contacts", "get_contacts_birthdays"}

\* A filter is present when it is a non-empty string.
Present(f) == Len(f) = 1 /\ f[1] # ""

NumPresent(call) ==
    (IF Present(call.first_name) THEN 1 ELSE 0)
    + (IF Present(call.last_name) THEN 1 ELSE 0)
    + (IF Present(call.email) THEN 1 ELSE 0)

\* C1: whatever creates, updates and deletes came before, every contact a
\* listing, a birthday listing or a read by id returns belongs to the user
\* the call was made for; a contact of another owner is never returned.
C1_OwnerIsolation ==
    /\ last.op \in ListingOps =>
           \A r \in Returned(last) : r.user_id = last.user /\ r \in RowsOf(store)
    /\ last.op = "get_contact_by_id" /\ last.result # None =>
           last.result.user_id = last.user /\ last.result \in RowsOf(store)

\* A listing by user 2 with an email filter that a contact of user 1 matches.
C1_Witness ==
    /\ last.op = "get_contacts"
    /\ last.user = 2
    /\ Present(last.email)
    /\ \E i \in 1..Len(store) :
           store[i].user_id = 1 /\ Some(store[i].email) = last.email

\* C2: for a row owned by someone else, read by id, update and delete give
\* the caller the same answer (None) on the table holding the row and on the
\* table without it, and leave either table as it was.
C2_ForeignIdLikeMissing ==
    \A i \in 1..Len(store) :
        \A user \in Users \ {store[i].user_id} :
            LET row == store[i]
                without == SelectSeq(store, LAMBDA r : r # row)
            IN  /\ get_contact_by_id(row.id, user, store) = None
                /\ get_contact_by_id(row.id, user, without) = None
                /\ remove_contact(row.id, user, store) = [db |-> store, result |-> None]
                /\ remove_contact(row.id, user, without) = [db |-> without, result |-> None]
                /\ \A body \in CrudBodies :
                       /\ update_contact(row.id, body, user, store)
                              = [db |-> store, result |-> None]
                       /\ update_contact(row.id, body, user, without)
                              = [db |-> without, result |-> None]

\* An update answered None although a row with that id exists (another owner's).
C2_Witness ==
    /\ last.op = "update_contact"
    /\ last.result = None
    /\ \E i \in 1..Len(store) :
           store[i].id = last.contact_id /\ store[i].user_id # last.user

\* C3: an update for an (id, owner) pair without a row returns None, changes
\* no row and creates none, and a read by id for the pair is still None.
C3_UpdateMissing ==
    [][ (last'.op = "update_contact" /\ ~Owns(store, last'.contact_id, last'.user))
          => /\ last'.result = None
             /\ last'.error = ""
             /\ store' = store
             /\ get_contact_by_id(last'.contact_id, last'.user, store') = None ]_vars

\* An update of an id no row has, on a table that holds rows.
C3_Witness ==
    /\ last.op = "update_contact"
    /\ last.result = None
    /\ Len(store) > 0
    /\ \A i \in 1..Len(store) : store[i].id # last.contact_id

\* C4: a delete for an (id, owner) pair without a row returns None and the
\* table is the same before and after.
C4_RemoveMissing ==
    [][ (last'.op = "remove_contact" /\ ~Owns(store, last'.contact_id, last'.user))
          => /\ last'.result = None
             /\ last'.error = ""
             /\ store' = store ]_vars

\* A delete answered None on a table that holds rows.
C4_Witness ==
    /\ last.op = "remove_contact"
    /\ last.result = None
    /\ Len(store) > 0

\* C5: right after create_contact, a read by id of the returned id for the
\* same owner gives a contact with the five fields of the request; create
\* never answers None.
C5_CreateReadRoundTrip ==
    last.op = "create_contact" =>
        /\ last.result # None
        /\ LET got == get_contact_by_id(last.result.id, last.user, store)
           IN  /\ got # None
               /\ got.first_name = last.body.first_name
               /\ got.last_name = last.body.last_name
               /\ got.email = last.body.email
               /\ got.phone = last.body.phone
               /\ got.date_of_birth = last.body.date_of_birth

\* A create on a table that already held a contact of the other user.
C5_Witness ==
    /\ last.op = "create_contact"
    /\ \E i \in 1..Len(store) : store[i].user_id # last.user

\* C6: an update of an existing (id, owner) pair returns the row with all five
\* fields equal to the request, and that is the row the table then holds.
C6_UpdateOverwritesAll ==
    [][ (last'.op = "update_contact" /\ Owns(store, last'.contact_id, last'.user))
          => /\ last'.result # None
             /\ last'.result.id = last'.contact_id
             /\ last'.result.user_id = last'.user
             /\ BodyOf(last'.result) = last'.body
             /\ get_contact_by_id(last'.contact_id, last'.user, store') = last'.result
             /\ Len(store') = Len(store) ]_vars

\* An update that returned a row.
C6_Witness ==
    /\ last.op = "update_contact"
    /\ last.result # None
    /\ Len(store) > 1

\* C7: a delete of an existing (id, owner) pair returns the row as it was and
\* takes it out of the table: read by id and a second delete answer None, and
\* no listing or birthday listing returns it.
C7_RemoveExisting ==
    [][ (last'.op = "remove_contact" /\ Owns(store, last'.contact_id, last'.user))
          => LET cid == last'.contact_id
                 user == last'.user
             IN  /\ last'.result = get_contact_by_id(cid, user, store)
                 /\ last'.result # None
                 /\ \A i \in 1..Len(store') : store'[i].id # cid
                 /\ Len(store') = Len(store) - 1
                 /\ get_contact_by_id(cid, user, store') = None
                 /\ remove_contact(cid, user, store').result = None
                 /\ \A skip \in Skips, limit \in Limits :
                        /\ \A f \in CrudFirstNames, l \in CrudLastNames, e \in CrudEmails :
                               \A res \in get_contacts(skip, limit, f, l, e, user, store') :
                                   \A k \in 1..Len(res) : res[k].id # cid
                        /\ \A today \in Todays :
                               LET b == get_contacts_birthdays(skip, limit, user, store', today)
                               IN  b.error = "" =>
                                       \A k \in 1..Len(b.result) : b.result[k].id # cid ]_vars

\* A delete that returned a row and left other rows in the table.
C7_Witness ==
    /\ last.op = "remove_contact"
    /\ last.result # None
    /\ Len(store) > 0

\* The owner's rows that match at least one of the present filters.
MatchesSome(call, r) ==
    \/ Present(call.first_name) /\ Some(r.first_name) = call.first_name
    \/ Present(call.last_name) /\ Some(r.last_name) = call.last_name
    \/ Present(call.email) /\ Some(r.email) = call.email

\* C8: with two or three filters present, the listing returns each contact
\* of the owner that matches at least one present filter exactly once, and
\* no other contact.
C8_FilterUnion ==
    (last.op = "get_contacts" /\ NumPresent(last) >= 2) =>
        /\ RowsOf(last.result)
               = {r \in RowsOf(store) : r.user_id = last.user /\ MatchesSome(last, r)}
        /\ \A i, j \in 1..Len(last.result) :
               last.result[i] = last.result[j] => i = j

\* A three-filter listing that returns a contact matching two of the filters
\* and one matching a single filter, and leaves out a contact of the owner.
C8_Witness ==
    /\ last.op = "get_contacts"
    /\ NumPresent(last) = 3
    /\ Len(last.result) = 2
    /\ \E i \in 1..Len(last.result) :
           /\ Some(last.result[i].first_name) = last.first_name
           /\ Some(last.result[i].email) = last.email
    /\ \E i \in 1..Len(store) :
           store[i].user_id = last.user /\ ~MatchesSome(last, store[i])

\* C9: with every filter absent or empty, the listing returns the owner's
\* contacts in table order from offset skip on, at most limit of them.
C9_UnfilteredPage ==
    (last.op = "get_contacts" /\ NumPresent(last) = 0) =>
        LET owned == SelectSeq(store, LAMBDA r : r.user_id = last.user)
            rest == IF Len(owned) > last.skip THEN Len(owned) - last.skip ELSE 0
        IN  /\ Len(last.result) = (IF rest < last.limit THEN rest ELSE last.limit)
            /\ Len(last.result) <= last.limit
            /\ \A k \in 1..Len(last.result) : last.result[k] = owned[last.skip + k]
            /\ (last.skip = 0 /\ last.limit = DefaultLimit)
                   => Len(last.result) <= DefaultLimit

\* An empty-string filter, a page that starts past the first contact and is
\* cut short by limit.
C9_Witness ==
    /\ last.op = "get_contacts"
    /\ last.first_name = Some("")
    /\ last.last_name = Absent
    /\ last.email = Some("")
    /\ last.skip = 1
    /\ Len(last.result) = last.limit
    /\ Len(SelectSeq(store, LAMBDA r : r.user_id = last.user)) > last.skip + last.limit

\* The page of contacts get_contacts_birthdays fetched for a call.
FetchedPage(call) ==
    Limit(Offset(SelectSeq(store, LAMBDA r : r.user_id = call.user), call.skip),
          call.limit)

\* C10: the birthday listing returns a fetched contact exactly when the days
\* from today to its birthday in the current year are between 0 and 7.
C10_BirthdayWindow ==
    last.op = "get_contacts_birthdays" =>
        \A c \in RowsOf(FetchedPage(last)) :
            CanReplaceYear(c.date_of_birth, last.today.year) =>
                LET d == DaysUntil(c.date_of_birth, last.today)
                IN  (c \in Returned(last)) <=> (0 <= d /\ d <= WindowDays)

\* The fetched contacts born on the given month and day.
BornOn(call, month, day) ==
    {c \in RowsOf(FetchedPage(call)) :
        c.date_of_birth.month = month /\ c.date_of_birth.day = day}

\* C11 as stated: with today = 2024-05-05 the birthday listing includes a
\* fetched contact born on 30 April, 5 days before today.
C11_PastBirthdayIncluded ==
    (last.op = "get_contacts_birthdays" /\ last.today = Date(2024, 5, 5)) =>
        \A c \in BornOn(last, 4, 30) : c \in Returned(last)

\* C11 amended: with today = 2024-05-05 the birthday listing leaves out every
\* fetched contact born on 30 April (its difference is -5 days), and returns
\* the fetched contacts born on 5 May (difference 0).
C11_PastBirthdayExcluded ==
    (last.op = "get_contacts_birthdays" /\ last.today = Date(2024, 5, 5)) =>
        /\ last.error = ""
        /\ \A c \in BornOn(last, 4, 30) : c \notin Returned(last)
        /\ \A c \in BornOn(last, 5, 5) : c \in Returned(last)

\* A call on 2024-05-05 whose page holds a contact born on 30 April and one
\* born on 5 May, and which returns a single contact.
C11_Witness ==
    /\ last.op = "get_contacts_birthdays"
    /\ last.today = Date(2024, 5, 5)
    /\ BornOn(last, 4, 30) # {}
    /\ BornOn(last, 5, 5) # {}
    /\ last.error = ""
    /\ Len(last.result) = 1

\* C12: the birthday listing does not raise, also when a fetched contact was
\* born on 29 February and the current year is not a leap year.
C12_NoRaiseOnLeapDay ==
    last.op = "get_contacts_birthdays" => last.error = ""

\* The month and day of a birthday come before today's in the calendar year.
EarlierInYear(date_of_birth, today) ==
    \/ date_of_birth.month < today.month
    \/ date_of_birth.month = today.month /\ date_of_birth.day < today.day

\* C17: a fetched contact whose month and day are earlier in the year than
\* today's is not returned, even if its next birthday is within 7 days
\* (today 29 December, born 2 January).
C17_EarlierInYearExcluded ==
    last.op = "get_contacts_birthdays" =>
        \A c \in RowsOf(FetchedPage(last)) :
            EarlierInYear(c.date_of_birth, last.today) => c \notin Returned(last)

\* A call on 29 December that fetched a contact born on 2 January and returned
\* an empty list.
C17_Witness ==
    /\ last.op = "get_contacts_birthdays"
    /\ last.today = Date(2024, 12, 29)
    /\ BornOn(last, 1, 2) # {}
    /\ last.error = ""
    /\ last.result = <<>>

\* s is t with some elements left out, the others in the same order.
IsSubsequence(s, t) ==
    \E f \in [1..Len(s) -> 1..Len(t)] :
        /\ \A i \in 1..Len(s) : s[i] = t[f[i]]
        /\ \A i, j \in 1..Len(s) : i < j => f[i] < f[j]

\* C18: the birthday listing filters the page it fetched: the result is a
\* list, a subsequence of the owner's contacts at offsets skip..skip+limit-1,
\* and the empty list when no contact of that page has a birthday within the
\* window.
C18_PageThenFilter ==
    last.op = "get_contacts_birthdays" =>
        /\ last.error = ""
        /\ IsSubsequence(last.result, FetchedPage(last))
        /\ (\A c \in RowsOf(FetchedPage(last)) :
                LET d == DaysUntil(c.date_of_birth, last.today)
                IN  ~(0 <= d /\ d <= WindowDays))
               => last.result = <<>>

\* C16: with exactly one filter present the listing returns all contacts of
\* the owner whose field equals the filter, in table order, whatever skip and
\* limit are: every other skip and limit gives the same list.
C16_SingleFilterUnpaginated ==
    (last.op = "get_contacts" /\ NumPresent(last) = 1) =>
        /\ last.result
               = SelectSeq(store, LAMBDA r : r.user_id = last.user /\ MatchesSome(last, r))
        /\ \A skip \in Skips, limit \in Limits :
               get_contacts(skip, limit, last.first_name, last.last_name,
                            last.email, last.user, store) = {last.result}

\* A first-name listing with skip 1 and limit 1 that returns two contacts while
\* the owner has a third contact that does not match.
C16_Witness ==
    /\ last.op = "get_contacts"
    /\ Present(last.first_name)
    /\ NumPresent(last) = 1
    /\ last.skip = 1
    /\ last.limit = 1
    /\ Len(last.result) = 2
    /\ \E i \in 1..Len(store) :
           store[i].user_id = last.user /\ ~MatchesSome(last, store[i])

ByIdOps == {"get_contact_by_id", "update_contact", "remove_contact"}

\* C13: at the routes an empty list of the listing or the birthday listing and
\* a None of read by id, update or delete become the 404 failure; any other
\* result is handed back as it is; the create route never answers 404.
C13_NotFoundMapping ==
    /\ (last.op \in ListingOps /\ last.error = "") =>
           IF last.result = <<>>
               THEN last.response.status = HTTP_404_NOT_FOUND /\ last.response.body = None
               ELSE last.response.status # HTTP_404_NOT_FOUND /\ last.response.body = last.result
    /\ last.op \in ByIdOps =>
           IF last.result = None
               THEN last.response.status = HTTP_404_NOT_FOUND /\ last.response.body = None
               ELSE last.response.status # HTTP_404_NOT_FOUND /\ last.response.body = last.result
    /\ last.op = "create_contact" =>
           last.response.status # HTTP_404_NOT_FOUND /\ last.response.body = last.result

\* A birthday listing of a user who has contacts, none inside the window,
\* answered 404.
C13_Witness ==
    /\ last.op = "get_contacts_birthdays"
    /\ last.error = ""
    /\ last.result = <<>>
    /\ last.response.status = HTTP_404_NOT_FOUND
    /\ \E i \in 1..Len(store) : store[i].user_id = last.user

\* ---------------------------------------------------------------- identity properties

\* The user rows of a table with this email.
WithEmail(db, email) == {db[i] : i \in {j \in 1..Len(db) : db[j].email = email}}

LoginSucceeded(call) ==
    call.op = "login" /\ call.response.status = HTTP_200_OK

\* C14: a login succeeds only when a user with that email exists, the password
\* matches the stored hash and the user is confirmed; with the correct password
\* an unconfirmed user is rejected with 401 'Email not confirmed' and a
\* confirmed one gets 200 and a bearer token.
C14_LoginNeedsConfirmed ==
    auth.op = "login" =>
        /\ LoginSucceeded(auth) =>
               \E u \in WithEmail(users, auth.email) :
                   /\ u.confirmed
                   /\ u.password = <<"hash", auth.password>>
        /\ \A u \in WithEmail(users, auth.email) :
               u.password = <<"hash", auth.password>> =>
                   IF u.confirmed
                       THEN /\ auth.response.status = HTTP_200_OK
                            /\ auth.response.body.token_type = "bearer"
                       ELSE /\ auth.response.status = HTTP_401_UNAUTHORIZED
                            /\ auth.response.detail = "Email not confirmed"

\* A successful login of one user while another user, registered first, is
\* not confirmed.
C14_Witness ==
    /\ LoginSucceeded(auth)
    /\ Len(users) = 2
    /\ users[2].email = auth.email
    /\ ~users[1].confirmed
    /\ users[1].password = <<"hash", auth.password>>

\* C15: no two users have the same email, and a signup with a registered email
\* is answered 409 'Account already exists' and leaves the table as it was.
C15_EmailUnique ==
    /\ [](\A i, j \in 1..Len(users) : users[i].email = users[j].email => i = j)
    /\ [][(auth'.op = "signup" /\ WithEmail(users, auth'.email) # {}) =>
              /\ users' = users
              /\ auth'.response.status = HTTP_409_CONFLICT
              /\ auth'.response.detail = "Account already exists"]_vars

\* A repeated signup answered 409, with two users registered.
C15_Witness ==
    /\ auth.op = "signup"
    /\ auth.response.status = HTTP_409_CONFLICT
    /\ Len(users) = 2
    /\ users[1].email # users[2].email

\* The rows of the table before a step and after it are those of the same
\* users, and each row the call does not target stays as it was.
OnlyTargetChanges(targeted(_), change(_)) ==
    /\ Len(users') = Len(users)
    /\ \A i \in 1..Len(users) :
           users'[i] = IF targeted(users[i]) THEN change(users[i]) ELSE users[i]

\* C20: confirmed_email changes only confirmed, to true, update_token only
\* refresh_token, to the token or to None, update_avatar only avatar, each on
\* the targeted user alone; no step removes a user or sets a confirmed flag
\* back to false.
C20_IndependentMutation ==
    [][/\ Len(users') >= Len(users)
       /\ \A i \in 1..Len(users) :
              /\ users'[i].id = users[i].id
              /\ users[i].confirmed => users'[i].confirmed
       /\ auth'.op = "confirmed_email" =>
              OnlyTargetChanges(LAMBDA u : u.email = auth'.email,
                                LAMBDA u : [u EXCEPT !.confirmed = TRUE])
       /\ auth'.op = "update_token" =>
              OnlyTargetChanges(LAMBDA u : u.id = auth'.user_id,
                                LAMBDA u : [u EXCEPT !.refresh_token = auth'.token])
       /\ auth'.op = "update_avatar" =>
              OnlyTargetChanges(LAMBDA u : u.email = auth'.email,
                                LAMBDA u : [u EXCEPT !.avatar = auth'.url])]_vars

\* An email confirmed for a user who holds a refresh token and an uploaded
\* avatar, while another user stays unconfirmed.
C20_Witness ==
    /\ auth.op = "confirmed_email"
    /\ auth.error = ""
    /\ Len(users) = 2
    /\ \E i, j \in 1..2 :
           /\ users[i].email = auth.email
           /\ users[i].confirmed
           /\ users[i].refresh_token \in Tokens
           /\ users[i].avatar \in AvatarUrls
           /\ users[j].email # auth.email
           /\ ~users[j].confirmed

\* ---------------------------------------------------------------- concurrency properties

\* C19: two update_contact calls of the owner on the same stored contact are
\* both answered with a contact, and once both have committed the five fields
\* of the stored contact are those of the request that committed last.
C19_LastWriteWins ==
    (/\ \A t \in Tasks : tasks[t].pc = "done" /\ tasks[t].user = store[1].user_id) =>
        /\ \A t \in Tasks : tasks[t].result # None
        /\ Len(commits) = 2
        /\ BodyOf(store[1]) = tasks[commits[2]].body

\* ---------------------------------------------------------------- ownership and frame

\* The ids of the rows of a table.
IdsOf(db) == {db[i].id : i \in 1..Len(db)}

\* C21: each stored contact has one owner, the user passed to the
\* create_contact call that made it: a row that appears in a step is made by
\* create_contact, under a new id and owned by the caller, and every row that
\* is still stored after a step keeps its id and its owner.
C21_OwnerFixed ==
    /\ [](\A i, j \in 1..Len(store) :
              /\ store[i].user_id \in Users
              /\ store[i].id = store[j].id => i = j)
    /\ [][\A i \in 1..Len(store') :
              IF store'[i].id \in IdsOf(store)
                  THEN \E j \in 1..Len(store) :
                           /\ store[j].id = store'[i].id
                           /\ store[j].user_id = store'[i].user_id
                  ELSE /\ last'.op = "create_contact"
                       /\ store'[i].user_id = last'.user
                       /\ store'[i] = last'.result]_vars

\* A contact created by the second user while the first row of the table
\* belongs to the first user.
C21_Witness ==
    /\ last.op = "create_contact"
    /\ Len(store) >= 2
    /\ store[1].user_id # last.user
    /\ store[Len(store)].user_id = last.user
    /\ store[Len(store)].id = last.result.id

\* The rows of a table other than the one with this id, in table order.
Others(db, contact_id) == SelectSeq(db, LAMBDA r : r.id # contact_id)

\* C22: an update or a removal that finds its contact leaves every other row
\* as it was, a creation leaves every existing row as it was, and the three
\* reads leave the table as it was.
C22_Frame ==
    [][/\ (last'.op \in {"update_contact", "remove_contact"} /\ last'.result # None) =>
              Others(store', last'.contact_id) = Others(store, last'.contact_id)
       /\ last'.op = "create_contact" =>
              /\ Len(store') = Len(store) + 1
              /\ SubSeq(store', 1, Len(store)) = store
       /\ last'.op \in {"get_contacts", "get_contact_by_id", "get_contacts_birthdays"} =>
              store' = store]_vars

\* An update that found its contact while its owner has another contact and
\* another user has one too.
C22_Witness ==
    /\ last.op = "update_contact"
    /\ last.result # None
    /\ \E i, j \in 1..Len(store) :
           /\ store[i].id # last.contact_id
           /\ store[i].user_id = last.user
           /\ BodyOf(store[i]) # last.body
           /\ store[j].user_id # last.user

====
